---- MODULE Spec2Model ----
(***************************************************************************)
(* Model of the schema tools (src/tools/schemaTools.ts) and the resource   *)
(* handlers (handleListResources / handleReadResource) of the MCP          *)
(* database server.                                                        *)
(*                                                                         *)
(* A JavaScript string is a sequence of one-character strings.  The text   *)
(* of a string literal that is only ever concatenated (an error message, a *)
(* prefix) is kept as one element, so that `prefix${x}` is <<prefix>> \o x.*)
(***************************************************************************)
EXTENDS Integers, Sequences, FiniteSets, TLC

(***************************************************************************)
(* Bounds of the model.                                                    *)
(***************************************************************************)
\* number of invocation slots: the invocations the host may have in flight
MaxInflight == 2

-----------------------------------------------------------------------------
(***************************************************************************)
(* String primitives of the JavaScript runtime used by the handlers.       *)
(***************************************************************************)
UNDEFINED == <<"undefined-value">>

UpperLetters == <<"A","B","C","D","E","F","G","H","I","J","K","L","M",
                  "N","O","P","Q","R","S","T","U","V","W","X","Y","Z">>
LowerLetters == <<"a","b","c","d","e","f","g","h","i","j","k","l","m",
                  "n","o","p","q","r","s","t","u","v","w","x","y","z">>

\* String.prototype.toLowerCase, one character
LowerChar(c) ==
  IF \E k \in 1..Len(UpperLetters) : UpperLetters[k] = c
  THEN LowerLetters[CHOOSE k \in 1..Len(UpperLetters) : UpperLetters[k] = c]
  ELSE c

\* String.prototype.toLowerCase
toLowerCase(s) == [k \in 1..Len(s) |-> LowerChar(s[k])]

\* the white space String.prototype.trim removes
WhiteSpace == {" ", "\t", "\n", "\r"}

RECURSIVE trimStart(_)
trimStart(s) ==
  IF s # <<>> /\ Head(s) \in WhiteSpace THEN trimStart(Tail(s)) ELSE s

RECURSIVE trimEnd(_)
trimEnd(s) ==
  IF s # <<>> /\ s[Len(s)] \in WhiteSpace
  THEN trimEnd(SubSeq(s, 1, Len(s) - 1)) ELSE s

\* String.prototype.trim
trim(s) == trimEnd(trimStart(s))

\* String.prototype.startsWith
startsWith(s, p) == Len(s) >= Len(p) /\ SubSeq(s, 1, Len(p)) = p

\* Array.prototype.includes on an array of strings
includes(arr, x) == \E k \in 1..Len(arr) : arr[k] = x

\* index of the first element of s in set cs, or Len(s) + 1
RECURSIVE FirstIn(_, _, _)
FirstIn(s, cs, k) ==
  IF k > Len(s) THEN Len(s) + 1
  ELSE IF s[k] \in cs THEN k ELSE FirstIn(s, cs, k + 1)

\* String.prototype.split with a one-character separator
RECURSIVE split(_, _)
split(s, sep) ==
  LET k == FirstIn(s, {sep}, 1) IN
  IF k > Len(s) THEN <<s>>
  ELSE <<SubSeq(s, 1, k - 1)>> \o split(SubSeq(s, k + 1, Len(s)), sep)

\* Array.prototype.pop: the element removed (undefined on an empty array)
popValue(arr) == IF arr = <<>> THEN UNDEFINED ELSE arr[Len(arr)]
\* Array.prototype.pop: the array left
popRest(arr) == IF arr = <<>> THEN <<>> ELSE SubSeq(arr, 1, Len(arr) - 1)

\* s occurs in t as a contiguous run
Contains(t, s) ==
  \E k \in 0..(Len(t) - Len(s)) : SubSeq(t, k + 1, k + Len(s)) = s

-----------------------------------------------------------------------------
(***************************************************************************)
(* The URL class (WHATWG URL, as in Node.js) for the schemes the handlers  *)
(* build: sqlite, sqlserver and db, none of them a special scheme.  The    *)
(* parser covers letters, digits, space, "/", "?", "#", "%", "\" and a     *)
(* non-ASCII letter; a dot segment ("." or ".."), a port and credentials   *)
(* in the authority are outside the inputs drawn below.                    *)
(***************************************************************************)
INVALID_URL == [invalid |-> TRUE]
\* the base of new URL(input) called with one argument
NO_BASE == INVALID_URL

Letters == {LowerLetters[k] : k \in 1..Len(LowerLetters)}
Digits == {"0","1","2","3","4","5","6","7","8","9"}
SchemeChars == Letters \cup Digits \cup {"+", "-", "."}

\* code points the path state percent-encodes (UTF-8 percent-encode set of paths)
EncodeChar(c) ==
  CASE c = " " -> <<"%","2","0">>
    [] c = "\"" -> <<"%","2","2">>
    [] c = "é" -> <<"%","C","3","%","A","9">>
    [] OTHER -> <<c>>

RECURSIVE PercentEncode(_)
PercentEncode(s) ==
  IF s = <<>> THEN <<>> ELSE EncodeChar(Head(s)) \o PercentEncode(Tail(s))

\* forbidden host code points (an opaque host holding one fails to parse)
ForbiddenHost == {" ", "#", "/", ":", "<", ">", "?", "@", "[", "\\", "]", "^", "|"}

\* leading and trailing C0 control characters and spaces are dropped
StripInput(s) == trim(s)

\* position of the ":" ending a scheme at the start of s, or 0
SchemeEnd(s) ==
  LET k == FirstIn(s, {":"}, 1) IN
  IF k <= Len(s) /\ k > 1 /\ LowerChar(s[1]) \in Letters
     /\ \A j \in 1..(k - 1) : LowerChar(s[j]) \in SchemeChars
  THEN k ELSE 0

\* "shorten a path": drop the last segment
Shorten(path) == popRest(path)

\* path state: the segments of s appended to path, each percent-encoded
PathState(path, s) ==
  LET segs == split(s, "/") IN
  path \o [k \in 1..Len(segs) |-> PercentEncode(segs[k])]

\* the part of s before its query or fragment, and that rest (encoded)
BeforeQuery(s) == SubSeq(s, 1, FirstIn(s, {"?", "#"}, 1) - 1)
FromQuery(s) == PercentEncode(SubSeq(s, FirstIn(s, {"?", "#"}, 1), Len(s)))

MkUrl(scheme, host, path, opaque, rest) ==
  [invalid |-> FALSE, scheme |-> scheme, host |-> host, path |-> path,
   opaque |-> opaque, rest |-> rest]

\* authority state and path start state, s the input after "//"
AuthorityState(scheme, s) ==
  LET k == FirstIn(s, {"/", "?", "#"}, 1)
      host == SubSeq(s, 1, k - 1)
      after == SubSeq(s, k, Len(s))
      p == BeforeQuery(after)
  IN IF \E j \in 1..Len(host) : host[j] \in ForbiddenHost THEN INVALID_URL
     ELSE MkUrl(scheme, host,
                IF p = <<>> THEN <<>> ELSE PathState(<<>>, Tail(p)),
                FALSE, FromQuery(after))

\* new URL(input, base); new URL(input) is ParseUrl(input, NO_BASE)
ParseUrl(input, base) ==
  LET s == StripInput(input)
      k == SchemeEnd(s)
      scheme == toLowerCase(SubSeq(s, 1, k - 1))
      r == SubSeq(s, k + 1, Len(s))
      p == BeforeQuery(s)
  IN IF k > 0
     THEN IF startsWith(r, <<"/", "/">>)
          THEN AuthorityState(scheme, SubSeq(r, 3, Len(r)))
          ELSE IF startsWith(r, <<"/">>)
          THEN MkUrl(scheme, UNDEFINED, PathState(<<>>, Tail(BeforeQuery(r))),
                     FALSE, FromQuery(r))
          ELSE MkUrl(scheme, UNDEFINED, BeforeQuery(r), TRUE, FromQuery(r))
     ELSE IF base.invalid THEN INVALID_URL
     ELSE IF base.opaque THEN INVALID_URL
     ELSE IF startsWith(s, <<"/", "/">>)
          THEN AuthorityState(base.scheme, SubSeq(s, 3, Len(s)))
     ELSE IF startsWith(s, <<"/">>)
          THEN MkUrl(base.scheme, base.host, PathState(<<>>, Tail(p)),
                     FALSE, FromQuery(s))
     ELSE IF p = <<>>
          THEN MkUrl(base.scheme, base.host, base.path, FALSE,
                     IF s = <<>> THEN base.rest ELSE FromQuery(s))
     ELSE MkUrl(base.scheme, base.host, PathState(Shorten(base.path), p),
                FALSE, FromQuery(s))

\* URL.pathname
RECURSIVE JoinPath(_)
JoinPath(path) ==
  IF path = <<>> THEN <<>> ELSE <<"/">> \o Head(path) \o JoinPath(Tail(path))

pathname(url) == IF url.opaque THEN url.path ELSE JoinPath(url.path)

\* URL.href
href(url) ==
  url.scheme \o <<":">>
  \o (IF url.host = UNDEFINED THEN <<>> ELSE <<"/", "/">> \o url.host)
  \o pathname(url) \o url.rest

-----------------------------------------------------------------------------
(***************************************************************************)
(* State.                                                                  *)
(*   tables  the tables of the database "main", in the order the listing   *)
(*           query returns them                                            *)
(*   meta    the metadata record configured for "main"                     *)
(*   inv     the invocations in flight, one per slot: the handler's        *)
(*           arguments, where it is suspended (pc), the external calls it  *)
(*           made so far (calls) and its outcome (result)                  *)
(***************************************************************************)
VARIABLES tables, meta, inv

vars == <<tables, meta, inv>>

Slots == 1..MaxInflight

\* the configured database and an identifier that is not configured
DbIds == {"main", "nodb"}

\* table names: a plain one, and one that needs quoting in SQL
TableNames == {<<"u">>, <<"m"," ","t">>}

\* the metadata records getDatabaseMetadata may hold for "main"
MetaSqlite == [path |-> <<"d","i","r","/","d",".","d","b">>, type |-> <<"s","q","l","i","t","e">>,
               server |-> UNDEFINED, database |-> UNDEFINED]
MetaSqliteNoPath == [path |-> UNDEFINED, type |-> <<"s","q","l","i","t","e">>,
                     server |-> UNDEFINED, database |-> UNDEFINED]
MetaSqlServer == [path |-> UNDEFINED, type |-> <<"s","q","l","s","e","r","v","e","r">>,
                  server |-> <<"s","r","v">>, database |-> <<"a","p","p">>]
MetaSqlServerNoDb == [path |-> UNDEFINED, type |-> <<"s","q","l","s","e","r","v","e","r">>,
                      server |-> <<"s","r","v">>, database |-> UNDEFINED]
MetaSqlServerInstance == [path |-> UNDEFINED, type |-> <<"s","q","l","s","e","r","v","e","r">>,
                          server |-> <<"s","r","v","\\","i">>, database |-> <<"a","p","p">>]
MetaPostgres == [path |-> UNDEFINED, type |-> <<"p","o","s","t","g","r","e","s","q","l">>,
                 server |-> <<"s","r","v">>, database |-> <<"a","p","p">>]
Metadata == {MetaSqlite, MetaSqliteNoPath, MetaSqlServer, MetaSqlServerNoDb,
             MetaSqlServerInstance, MetaPostgres}

\* the sequences over S that hold no element twice
RECURSIVE Listings(_)
Listings(S) ==
  {<<>>} \cup UNION {{<<x>> \o l : l \in Listings(S \ {x})} : x \in S}

-----------------------------------------------------------------------------
(***************************************************************************)
(* The external database layer (../db/index.js) and the response helper    *)
(* (../utils/formatUtils.js), as section 6 of the specification states     *)
(* them.  fail is the layer's own choice to fail a call (connectivity,     *)
(* permissions, a locked database).                                        *)
(***************************************************************************)
LIST_TABLES_QUERY == <<"<list-tables query>">>
DESCRIBE_TABLE_QUERY == <<"<describe-table query> ">>
LAYER_ERROR == <<"database layer failure">>
UNKNOWN_DB_ERROR == <<"Database not found">>

\* getDatabaseMetadata(dbId)
getDatabaseMetadata(dbId) ==
  IF dbId = "main" THEN [ok |-> TRUE, value |-> meta, error |-> <<>>]
  ELSE [ok |-> FALSE, value |-> MetaSqliteNoPath, error |-> UNKNOWN_DB_ERROR]

\* getListTablesQuery(dbId)
getListTablesQuery(dbId) == LIST_TABLES_QUERY

\* getDescribeTableQuery(dbId, tableName)
getDescribeTableQuery(dbId, tableName) == DESCRIBE_TABLE_QUERY \o tableName

\* the rows a describe-table query yields for a table that exists
ColumnRows ==
  << [name |-> <<"i","d">>, type |-> <<"I","N","T","E","G","E","R">>, notnull |-> 1,
      dflt_value |-> UNDEFINED, pk |-> 1],
     [name |-> <<"n">>, type |-> <<"T","E","X","T">>, notnull |-> 0,
      dflt_value |-> <<"x">>, pk |-> 0] >>

\* dbAll(dbId, query): the rows, or a failure
dbAll(dbId, query, tbls, fail) ==
  IF dbId # "main" THEN [ok |-> FALSE, rows |-> <<>>, error |-> UNKNOWN_DB_ERROR]
  ELSE IF fail THEN [ok |-> FALSE, rows |-> <<>>, error |-> LAYER_ERROR]
  ELSE IF query = LIST_TABLES_QUERY
  THEN [ok |-> TRUE, rows |-> [k \in 1..Len(tbls) |-> [name |-> tbls[k]]],
        error |-> <<>>]
  ELSE IF includes(tbls, SubSeq(query, 2, Len(query)))
  THEN [ok |-> TRUE, rows |-> ColumnRows, error |-> <<>>]
  ELSE [ok |-> TRUE, rows |-> <<>>, error |-> <<>>]

CREATE_TABLE == <<"c","r","e","a","t","e"," ","t","a","b","l","e">>
ALTER_TABLE == <<"a","l","t","e","r"," ","t","a","b","l","e">>
DROP_TABLE == <<"d","r","o","p"," ","t","a","b","l","e">>

\* the table a statement names: the word, or quoted name, after keywords kw
StatementTable(stmt, kw) ==
  LET rest == trimStart(SubSeq(stmt, Len(kw) + 1, Len(stmt))) IN
  IF startsWith(rest, <<"\"">>)
  THEN SubSeq(rest, 2, FirstIn(Tail(rest), {"\""}, 1))
  ELSE SubSeq(rest, 1, FirstIn(rest, WhiteSpace \cup {"("}, 1) - 1)

\* the keywords are followed by white space or a quote
KeywordEnds(stmt, kw) ==
  /\ startsWith(toLowerCase(stmt), kw)
  /\ Len(stmt) > Len(kw)
  /\ stmt[Len(kw) + 1] \in WhiteSpace \cup {"\""}

\* dbExec(dbId, query): the statement's effect on the tables, or a failure
dbExec(dbId, query, tbls, fail) ==
  LET stmt == trim(query)
      t == StatementTable(stmt, IF KeywordEnds(stmt, CREATE_TABLE) THEN CREATE_TABLE
                                ELSE IF KeywordEnds(stmt, ALTER_TABLE) THEN ALTER_TABLE
                                ELSE DROP_TABLE)
      failed(e) == [ok |-> FALSE, tables |-> tbls, error |-> e]
      done(ts) == [ok |-> TRUE, tables |-> ts, error |-> <<>>]
  IN IF dbId # "main" THEN failed(UNKNOWN_DB_ERROR)
     ELSE IF fail THEN failed(LAYER_ERROR)
     ELSE IF KeywordEnds(stmt, CREATE_TABLE)
     THEN IF t = <<>> THEN failed(<<"syntax error">>)
          ELSE IF includes(tbls, t) THEN failed(<<"table already exists: ">> \o t)
          ELSE done(Append(tbls, t))
     ELSE IF KeywordEnds(stmt, ALTER_TABLE)
     THEN IF includes(tbls, t) THEN done(tbls)
          ELSE failed(<<"no such table: ">> \o t)
     ELSE IF KeywordEnds(stmt, DROP_TABLE)
     THEN IF includes(tbls, t)
          THEN done(SelectSeq(tbls, LAMBDA x : x # t))
          ELSE failed(<<"no such table: ">> \o t)
     ELSE failed(<<"syntax error">>)

\* formatSuccessResponse(payload)
formatSuccessResponse(payload) == [envelope |-> TRUE, payload |-> payload]

-----------------------------------------------------------------------------
(***************************************************************************)
(* An invocation of a handler.  Between two awaits a handler runs without  *)
(* interruption (one JavaScript turn); at an await it is suspended until   *)
(* the external layer settles the call.                                    *)
(***************************************************************************)
NoResult == [value |-> <<>>, kind |-> "none", message |-> <<>>, cause |-> <<>>]

Idle == [calls |-> <<>>, result |-> NoResult, base |-> NO_BASE, dbId |-> "",
         op |-> "idle", arg |-> <<>>, confirm |-> FALSE, pc |-> "idle",
         pending |-> <<>>, raced |-> FALSE, missingAtExec |-> FALSE]

Invoke(op, dbId, arg, confirm) ==
  [Idle EXCEPT !.op = op, !.dbId = dbId, !.arg = arg, !.confirm = confirm,
               !.pc = "run"]

\* a call of the external layer that returns at once
Called(self, fn, arg) ==
  [self EXCEPT !.calls = Append(@, [fn |-> fn, arg |-> arg, state |-> "ok",
                                    rows |-> <<>>, error |-> <<>>])]

\* await fn(dbId, arg): the handler is suspended at pc
Await(self, fn, arg, pc) ==
  [self EXCEPT !.calls = Append(@, [fn |-> fn, arg |-> arg,
                                    state |-> "pending", rows |-> <<>>,
                                    error |-> <<>>]),
               !.pending = arg, !.pc = pc]

\* the awaited call settles
Settled(self, out, rows) ==
  [self EXCEPT !.calls[Len(self.calls)].state = IF out.ok THEN "ok" ELSE "failed",
               !.calls[Len(self.calls)].rows = rows,
               !.calls[Len(self.calls)].error = out.error,
               !.pending = <<>>, !.pc = "run"]

\* return value
Return(self, value) ==
  [self EXCEPT !.pc = "done",
               !.result = [kind |-> "returned", message |-> <<>>,
                           cause |-> <<>>, value |-> value]]

\* throw new Error(message)
Raise(self, message) ==
  [self EXCEPT !.pc = "done",
               !.result = [kind |-> "raised", message |-> message,
                           cause |-> message, value |-> <<>>]]

\* catch (error) { throw new Error(`<<"p","r","e","f","i","x">>{error.message}`) }
Catch(prefix, self) ==
  IF self.result.kind = "raised"
  THEN [self EXCEPT !.result = [kind |-> "threw",
                                message |-> <<prefix>> \o self.result.message,
                                cause |-> self.result.message,
                                value |-> <<>>]]
  ELSE self

\* rows.map(t => t.name)
RowNames(rows) == [k \in 1..Len(rows) |-> rows[k].name]

-----------------------------------------------------------------------------
(***************************************************************************)
(* src/tools/schemaTools.ts                                                *)
(***************************************************************************)
\* createTable with the statement checked as given, not trimmed
createTable_untrimmed(dbId, query) ==
  LET self == Invoke("createTable", dbId, query, FALSE) IN
  Catch("SQL Error: ",
    IF ~startsWith(toLowerCase(query), CREATE_TABLE)
    THEN Raise(self, <<"Only CREATE TABLE statements are allowed">>)
    ELSE Await(self, "dbExec", query, "exec"))

\* createTable, to its await
createTable(dbId, query) ==
  LET self == Invoke("createTable", dbId, query, FALSE) IN
  Catch("SQL Error: ",
    IF ~startsWith(toLowerCase(trim(query)), CREATE_TABLE)
    THEN Raise(self, <<"Only CREATE TABLE statements are allowed">>)
    ELSE Await(self, "dbExec", query, "exec"))

\* createTable, after await dbExec
createTableExecuted(self, out) ==
  Catch("SQL Error: ",
    IF ~out.ok THEN Raise(self, out.error)
    ELSE Return(self, formatSuccessResponse(
           [success |-> TRUE, message |-> <<"Table created successfully">>])))

\* alterTable, to its await
alterTable(dbId, query) ==
  LET self == Invoke("alterTable", dbId, query, FALSE) IN
  Catch("SQL Error: ",
    IF ~startsWith(toLowerCase(trim(query)), ALTER_TABLE)
    THEN Raise(self, <<"Only ALTER TABLE statements are allowed">>)
    ELSE Await(self, "dbExec", query, "exec"))

\* alterTable with a catch block that throws the error on as it came
alterTableExecuted_rethrown(self, out) ==
  IF ~out.ok
  THEN [self EXCEPT !.pc = "done",
                    !.result = [kind |-> "threw", message |-> out.error,
                                cause |-> out.error, value |-> <<>>]]
  ELSE Return(self, formatSuccessResponse(
         [success |-> TRUE, message |-> <<"Table altered successfully">>]))

\* alterTable, after await dbExec
alterTableExecuted(self, out) ==
  Catch("SQL Error: ",
    IF ~out.ok THEN Raise(self, out.error)
    ELSE Return(self, formatSuccessResponse(
           [success |-> TRUE, message |-> <<"Table altered successfully">>])))

\* dropTable without the confirmation gate
dropTable_ungated(dbId, tableName, confirm) ==
  LET self == Invoke("dropTable", dbId, tableName, confirm) IN
  Catch("Error dropping table: ",
    IF tableName = <<>>
    THEN Raise(self, <<"Table name is required">>)
    ELSE Await(Called(self, "getListTablesQuery", <<>>),
               "dbAll", getListTablesQuery(dbId), "list"))

\* dropTable, to its first await
dropTable(dbId, tableName, confirm) ==
  LET self == Invoke("dropTable", dbId, tableName, confirm) IN
  Catch("Error dropping table: ",
    IF tableName = <<>>
    THEN Raise(self, <<"Table name is required">>)
    ELSE IF ~confirm
    THEN Return(self, formatSuccessResponse(
           [success |-> FALSE,
            message |-> <<"Safety confirmation required. Set confirm=true to proceed with dropping the table.">>]))
    ELSE Await(Called(self, "getListTablesQuery", <<>>),
               "dbAll", getListTablesQuery(dbId), "list"))

\* dropTable without the existence check
dropTableListed_unchecked(self, out) ==
  Catch("Error dropping table: ",
    IF ~out.ok THEN Raise(self, out.error)
    ELSE Await(self, "dbExec",
               <<"D","R","O","P"," ","T","A","B","L","E"," ","\"">> \o self.arg \o <<"\"">>, "exec"))

\* dropTable, after await dbAll
dropTableListed(self, out) ==
  Catch("Error dropping table: ",
    IF ~out.ok THEN Raise(self, out.error)
    ELSE IF ~includes(RowNames(out.rows), self.arg)
    THEN Raise(self, <<"Table '">> \o self.arg \o <<"' does not exist">>)
    ELSE Await(self, "dbExec",
               <<"D","R","O","P"," ","T","A","B","L","E"," ","\"">> \o self.arg \o <<"\"">>, "exec"))

\* dropTable, after await dbExec
dropTableExecuted(self, out) ==
  Catch("Error dropping table: ",
    IF ~out.ok THEN Raise(self, out.error)
    ELSE Return(self, formatSuccessResponse(
           [success |-> TRUE,
            message |-> <<"Table '">> \o self.arg \o <<"' dropped successfully">>])))

\* listTables running its query through dbExec
listTables_executing(dbId) ==
  LET self == Invoke("listTables", dbId, <<>>, FALSE) IN
  Catch("Error listing tables: ",
    Await(Called(self, "getListTablesQuery", <<>>),
          "dbExec", getListTablesQuery(dbId), "exec"))

\* listTables, to its await
listTables(dbId) ==
  LET self == Invoke("listTables", dbId, <<>>, FALSE) IN
  Catch("Error listing tables: ",
    Await(Called(self, "getListTablesQuery", <<>>),
          "dbAll", getListTablesQuery(dbId), "list"))

\* listTables, after await dbAll
listTablesListed(self, out) ==
  Catch("Error listing tables: ",
    IF ~out.ok THEN Raise(self, out.error)
    ELSE Return(self, formatSuccessResponse(RowNames(out.rows))))

\* describeTable, to its first await
describeTable(dbId, tableName) ==
  LET self == Invoke("describeTable", dbId, tableName, FALSE) IN
  Catch("Error describing table: ",
    IF tableName = <<>>
    THEN Raise(self, <<"Table name is required">>)
    ELSE Await(Called(self, "getListTablesQuery", <<>>),
               "dbAll", getListTablesQuery(dbId), "list"))

\* describeTable without the existence check
describeTableListed_unchecked(self, out) ==
  Catch("Error describing table: ",
    IF ~out.ok THEN Raise(self, out.error)
    ELSE Await(Called(self, "getDescribeTableQuery", self.arg),
               "dbAll", getDescribeTableQuery(self.dbId, self.arg), "describe"))

\* describeTable, after the first await dbAll
describeTableListed(self, out) ==
  Catch("Error describing table: ",
    IF ~out.ok THEN Raise(self, out.error)
    ELSE IF ~includes(RowNames(out.rows), self.arg)
    THEN Raise(self, <<"Table '">> \o self.arg \o <<"' does not exist">>)
    ELSE Await(Called(self, "getDescribeTableQuery", self.arg),
               "dbAll", getDescribeTableQuery(self.dbId, self.arg), "describe"))

\* describeTable, after the second await dbAll
describeTableDescribed(self, out) ==
  Catch("Error describing table: ",
    IF ~out.ok THEN Raise(self, out.error)
    ELSE Return(self, formatSuccessResponse(
           [k \in 1..Len(out.rows) |->
              [name |-> out.rows[k].name,
               type |-> out.rows[k].type,
               notnull |-> out.rows[k].notnull # 0,
               default_value |-> out.rows[k].dflt_value,
               primary_key |-> out.rows[k].pk # 0]])))

-----------------------------------------------------------------------------
(***************************************************************************)
(* The resource handlers (handleListResources, handleReadResource).        *)
(***************************************************************************)
SCHEMA_PATH == <<"s","c","h","e","m","a">>

\* a string that is neither undefined nor empty
Truthy(s) == s # UNDEFINED /\ s # <<>>

\* the base URL chosen from the shape of the metadata, whatever the type
resourceBaseUrl_byShape(dbInfo) ==
  IF dbInfo.type = <<"s","q","l","i","t","e">> /\ Truthy(dbInfo.path)
  THEN ParseUrl(<<"s","q","l","i","t","e",":","/","/","/">> \o dbInfo.path, NO_BASE)
  ELSE IF Truthy(dbInfo.server) /\ Truthy(dbInfo.database)
  THEN ParseUrl(dbInfo.type \o <<":","/","/">> \o dbInfo.server \o <<"/">>
                \o dbInfo.database, NO_BASE)
  ELSE ParseUrl(<<"d","b",":","/","/","/","d","a","t","a","b","a","s","e">>, NO_BASE)

\* the base URL chosen from the database type
resourceBaseUrl(dbInfo) ==
  IF dbInfo.type = <<"s","q","l","i","t","e">> /\ Truthy(dbInfo.path)
  THEN ParseUrl(<<"s","q","l","i","t","e",":","/","/","/">> \o dbInfo.path, NO_BASE)
  ELSE IF dbInfo.type = <<"s","q","l","s","e","r","v","e","r">> /\ Truthy(dbInfo.server)
          /\ Truthy(dbInfo.database)
  THEN ParseUrl(<<"s","q","l","s","e","r","v","e","r",":","/","/">> \o dbInfo.server \o <<"/">> \o dbInfo.database,
                NO_BASE)
  ELSE ParseUrl(<<"d","b",":","/","/","/","d","a","t","a","b","a","s","e">>, NO_BASE)

\* new URL(`${row.name}/${SCHEMA_PATH}`, resourceBaseUrl)
resourceUrl(name, base) == ParseUrl(name \o <<"/">> \o SCHEMA_PATH, base)

\* handleListResources, to its await
handleListResources(dbId) ==
  LET dbInfo == getDatabaseMetadata(dbId)
      self == [Invoke("listResources", dbId, <<>>, FALSE) EXCEPT
                 !.calls = <<[fn |-> "getDatabaseMetadata", arg |-> <<>>,
                              state |-> IF dbInfo.ok THEN "ok" ELSE "failed",
                              rows |-> <<>>, error |-> dbInfo.error]>>]
      url == resourceBaseUrl(dbInfo.value)
  IN Catch("Error listing resources: ",
       IF ~dbInfo.ok THEN Raise(self, dbInfo.error)
       ELSE IF url.invalid THEN Raise(self, <<"Invalid URL">>)
       ELSE Await(Called([self EXCEPT !.base = url], "getListTablesQuery", <<>>),
                  "dbAll", getListTablesQuery(dbId), "list"))

\* handleListResources, after await dbAll
handleListResourcesListed(self, out) ==
  Catch("Error listing resources: ",
    IF ~out.ok THEN Raise(self, out.error)
    ELSE IF \E k \in 1..Len(out.rows) :
              resourceUrl(out.rows[k].name, self.base).invalid
    THEN Raise(self, <<"Invalid URL">>)
    ELSE Return(self,
           [resources |->
              [k \in 1..Len(out.rows) |->
                 [uri |-> href(resourceUrl(out.rows[k].name, self.base)),
                  mimeType |-> <<"application/json">>,
                  name |-> <<"\"">> \o out.rows[k].name
                           \o <<"\" database schema">>]]]))

\* handleReadResource building the describe-table query before its check
handleReadResource_queryFirst(dbId, uri) ==
  LET url == ParseUrl(uri, NO_BASE)
      pathComponents == split(pathname(url), "/")
      schema == popValue(pathComponents)
      tableName == popValue(popRest(pathComponents))
      self == Called(Invoke("readResource", dbId, uri, FALSE),
                     "getDescribeTableQuery", tableName)
  IN Catch("Error reading resource: ",
       IF url.invalid
       THEN Raise(Invoke("readResource", dbId, uri, FALSE), <<"Invalid URL">>)
       ELSE IF schema # SCHEMA_PATH THEN Raise(self, <<"Invalid resource URI">>)
       ELSE Await(self, "dbAll", getDescribeTableQuery(dbId, tableName),
                  "describe"))

\* handleReadResource, to its await
handleReadResource(dbId, uri) ==
  LET self == Invoke("readResource", dbId, uri, FALSE)
      url == ParseUrl(uri, NO_BASE)
      pathComponents == split(pathname(url), "/")
      schema == popValue(pathComponents)
      tableName == popValue(popRest(pathComponents))
  IN Catch("Error reading resource: ",
       IF url.invalid THEN Raise(self, <<"Invalid URL">>)
       ELSE IF schema # SCHEMA_PATH THEN Raise(self, <<"Invalid resource URI">>)
       ELSE Await(Called(self, "getDescribeTableQuery", tableName),
                  "dbAll", getDescribeTableQuery(dbId, tableName), "describe"))

\* JSON.stringify(value, null, 2)
JSONstringify(value) == [json |-> value]

\* handleReadResource, after await dbAll
handleReadResourceDescribed(self, out) ==
  Catch("Error reading resource: ",
    IF ~out.ok THEN Raise(self, out.error)
    ELSE Return(self,
           [contents |->
              <<[uri |-> self.arg,
                 mimeType |-> <<"application/json">>,
                 text |-> JSONstringify(
                   [k \in 1..Len(out.rows) |->
                      [column_name |-> out.rows[k].name,
                       data_type |-> out.rows[k].type]])]>>]))

-----------------------------------------------------------------------------
(***************************************************************************)
(* The arguments callers pass.                                             *)
(***************************************************************************)
Queries ==
  { <<"c","r","e","a","t","e"," ","t","a","b","l","e"," ","u">>,
    <<"\t">> \o <<"C","R","E","A","T","E"," ","T","A","B","L","E"," ","\"","m"," ","t","\""," ">>,
    <<"c","r","e","a","t","e"," ","t","a","b","l","e","s","p","a","c","e">>,
    <<" ","A","l","t","e","r"," ","T","a","b","l","e"," ","u"," ","a","d","d"," ","c">>,
    <<"d","r","o","p"," ","t","a","b","l","e"," ","u">>,
    <<"s","e","l","e","c","t"," ","c","r","e","a","t","e"," ","t","a","b","l","e"," ","u">> }

\* table-name arguments: the table names and the empty string
NameArgs == TableNames \cup {<<>>}

\* the URIs handleListResources yields for the tables of the database
ListedUris ==
  IF resourceBaseUrl(meta).invalid THEN {}
  ELSE {href(resourceUrl(tables[k], resourceBaseUrl(meta))) : k \in 1..Len(tables)}

\* URIs written by hand
OtherUris ==
  { <<"d","b",":","/","/","/","u","/","s","c","h","e","m","a">>,
    <<"d","b",":","/","/","/","s","c","h","e","m","a">>,
    <<"d","b",":","s","c","h","e","m","a">>,
    <<"d","b",":","/","/","/","u","/","c","o","l","u","m","n","s">>,
    <<"d","b",":","/","/","/","u","/","s","c","h","e","m","a","/">>,
    <<"u","/","s","c","h","e","m","a">> }

-----------------------------------------------------------------------------
(***************************************************************************)
(* Actions: a caller invokes a handler in a free slot; the external layer  *)
(* settles an awaited call, and the handler runs on to its next await or   *)
(* to its end; the caller takes the outcome.                               *)
(***************************************************************************)
Start(i, self) ==
  /\ inv[i].pc = "idle"
  /\ inv' = [inv EXCEPT ![i] = self]
  /\ UNCHANGED <<tables, meta>>

CallCreateTable(i) ==
  \E dbId \in DbIds, query \in Queries : Start(i, createTable(dbId, query))

CallAlterTable(i) ==
  \E dbId \in DbIds, query \in Queries : Start(i, alterTable(dbId, query))

CallDropTable(i) ==
  \E dbId \in DbIds, tableName \in NameArgs, confirm \in BOOLEAN :
    Start(i, dropTable(dbId, tableName, confirm))

CallListTables(i) ==
  \E dbId \in DbIds : Start(i, listTables(dbId))

CallDescribeTable(i) ==
  \E dbId \in DbIds, tableName \in NameArgs :
    Start(i, describeTable(dbId, tableName))

CallListResources(i) ==
  \E dbId \in DbIds : Start(i, handleListResources(dbId))

CallReadResource(i) ==
  \E dbId \in DbIds, uri \in ListedUris \cup OtherUris :
    Start(i, handleReadResource(dbId, uri))

\* the handler's code after the await it is suspended at
Resume(self, pc, out) ==
  CASE self.op = "createTable" -> createTableExecuted(self, out)
    [] self.op = "alterTable" -> alterTableExecuted(self, out)
    [] self.op = "dropTable" /\ pc = "list" -> dropTableListed(self, out)
    [] self.op = "dropTable" /\ pc = "exec" -> dropTableExecuted(self, out)
    [] self.op = "listTables" -> listTablesListed(self, out)
    [] self.op = "describeTable" /\ pc = "list" -> describeTableListed(self, out)
    [] self.op = "describeTable" /\ pc = "describe" ->
         describeTableDescribed(self, out)
    [] self.op = "listResources" -> handleListResourcesListed(self, out)
    [] self.op = "readResource" -> handleReadResourceDescribed(self, out)

\* the layer settles an awaited dbAll
DbAllSettles(i) ==
  /\ inv[i].pc \in {"list", "describe"}
  /\ \E fail \in BOOLEAN :
       LET out == dbAll(inv[i].dbId, inv[i].pending, tables, fail) IN
       inv' = [inv EXCEPT
                 ![i] = Resume(Settled(inv[i], out, out.rows), inv[i].pc, out)]
  /\ UNCHANGED <<tables, meta>>

\* the layer settles an awaited dbExec.  missingAtExec records that a DROP
\* TABLE reached the database when its table was not there; raced records,
\* for every other invocation in flight, that the tables changed under it.
DbExecSettles(i) ==
  /\ inv[i].pc = "exec"
  /\ \E fail \in BOOLEAN :
       LET out == dbExec(inv[i].dbId, inv[i].pending, tables, fail)
           self == [Settled(inv[i], out, <<>>) EXCEPT
                      !.missingAtExec = /\ inv[i].op = "dropTable"
                                        /\ ~includes(tables, inv[i].arg)]
       IN /\ tables' = out.tables
          /\ inv' = [j \in Slots |->
                       IF j = i THEN Resume(self, "exec", out)
                       ELSE IF inv[j].pc \notin {"idle", "done"}
                               /\ out.tables # tables
                       THEN [inv[j] EXCEPT !.raced = TRUE]
                       ELSE inv[j]]
  /\ UNCHANGED meta

\* the caller takes the outcome; the slot is free again
Deliver(i) ==
  /\ inv[i].pc = "done"
  /\ inv' = [inv EXCEPT ![i] = Idle]
  /\ UNCHANGED <<tables, meta>>

Init ==
  /\ tables \in Listings(TableNames)
  /\ meta \in Metadata
  /\ inv = [i \in Slots |-> Idle]

\* no invocation is in flight
Quiet == \A j \in Slots : inv[j].pc = "idle"

\* the host runs the invocations one at a time
Next ==
  \E i \in Slots :
    \/ Quiet /\ CallCreateTable(i)
    \/ Quiet /\ CallAlterTable(i)
    \/ Quiet /\ CallDropTable(i)
    \/ Quiet /\ CallListTables(i)
    \/ Quiet /\ CallDescribeTable(i)
    \/ Quiet /\ CallListResources(i)
    \/ Quiet /\ CallReadResource(i)
    \/ DbAllSettles(i)
    \/ DbExecSettles(i)
    \/ Deliver(i)

Spec == Init /\ [][Next]_vars

\* the host runs invocations of the tools that create tables or check a
\* table's existence before acting, concurrently against the same database
InitConcurrent ==
  /\ tables \in Listings(TableNames)
  /\ meta = MetaSqlite
  /\ inv = [i \in Slots |-> Idle]

NextConcurrent ==
  \E i \in Slots :
    \/ CallCreateTable(i)
    \/ CallDropTable(i)
    \/ CallDescribeTable(i)
    \/ DbAllSettles(i)
    \/ DbExecSettles(i)
    \/ Deliver(i)

SpecConcurrent == InitConcurrent /\ [][NextConcurrent]_vars

-----------------------------------------------------------------------------
(***************************************************************************)
(* Vocabulary of the properties.                                           *)
(***************************************************************************)
\* the calls of invocation i to the functions fns, as positions in its log
CallsTo(i, fns) == {k \in 1..Len(inv[i].calls) : inv[i].calls[k].fn \in fns}

DatabaseCalls == {"getListTablesQuery", "getDescribeTableQuery", "dbAll", "dbExec"}

Finished(i) == inv[i].pc = "done"
Failed(i) == Finished(i) /\ inv[i].result.kind = "threw"
Returned(i) == Finished(i) /\ inv[i].result.kind = "returned"

\* query, read past its leading white space and without regard to case,
\* begins with the keywords kw
BeginsWith(query, kw) ==
  \E n \in 0..Len(query) :
    /\ \A k \in 1..n : query[k] \in WhiteSpace
    /\ Len(query) >= n + Len(kw)
    /\ \A k \in 1..Len(kw) : LowerChar(query[n + k]) = kw[k]

Keywords(op) == IF op = "createTable" THEN CREATE_TABLE ELSE ALTER_TABLE

\* a table listing of invocation i that came back without its table name
ListedWithout(i) ==
  \E k \in CallsTo(i, {"dbAll"}) :
    /\ inv[i].calls[k].arg = LIST_TABLES_QUERY
    /\ inv[i].calls[k].state = "ok"
    /\ ~includes(RowNames(inv[i].calls[k].rows), inv[i].arg)

\* the fixed prefix of each operation's errors
ErrorPrefix(op) ==
  CASE op \in {"createTable", "alterTable"} -> "SQL Error: "
    [] op = "dropTable" -> "Error dropping table: "
    [] op = "listTables" -> "Error listing tables: "
    [] op = "describeTable" -> "Error describing table: "
    [] op = "listResources" -> "Error listing resources: "
    [] op = "readResource" -> "Error reading resource: "

-----------------------------------------------------------------------------
\* C1: dropTable with a non-empty table name and confirm = false returns
\* normally with an envelope whose success field is false, and has called
\* neither dbAll nor dbExec (nor anything else of the database layer).
C1_UnconfirmedDropIsRefused ==
  \A i \in Slots :
    (inv[i].op = "dropTable" /\ inv[i].arg # <<>> /\ ~inv[i].confirm) =>
      /\ Returned(i)
      /\ inv[i].result.value.payload.success = FALSE
      /\ inv[i].calls = <<>>

C1_Witness ==
  \E i \in Slots :
    /\ inv[i].op = "dropTable" /\ inv[i].arg = <<"m"," ","t">> /\ ~inv[i].confirm
    /\ inv[i].dbId = "main" /\ includes(tables, inv[i].arg)
    /\ Returned(i)

\* C2: dropTable (confirmed) and describeTable of a table that is absent
\* from the listing they received fail with a message containing the table
\* name, after exactly one dbAll, with no dbExec and no describe-table query.
C2_AbsentTableFails ==
  \A i \in Slots :
    (inv[i].op \in {"dropTable", "describeTable"} /\ inv[i].arg # <<>>
       /\ ListedWithout(i)) =>
      /\ Failed(i)
      /\ Contains(inv[i].result.message, inv[i].arg)
      /\ Cardinality(CallsTo(i, {"dbAll"})) = 1
      /\ CallsTo(i, {"dbExec", "getDescribeTableQuery"}) = {}

C2_Witness ==
  \E i \in Slots :
    /\ inv[i].op = "describeTable" /\ inv[i].arg = <<"m"," ","t">>
    /\ ListedWithout(i) /\ Failed(i) /\ tables = <<<<"u">>>>

\* C3: createTable / alterTable fail for a query that does not begin (past
\* leading white space, in any case) with "create table" / "alter table";
\* otherwise they make exactly one dbExec call, with the query as given,
\* and return the success envelope exactly when that call did not fail.
C3_StatementPrefixGuard ==
  \A i \in Slots :
    inv[i].op \in {"createTable", "alterTable"} =>
      IF ~BeginsWith(inv[i].arg, Keywords(inv[i].op))
      THEN Failed(i) /\ inv[i].calls = <<>>
      ELSE /\ Len(inv[i].calls) = 1
           /\ inv[i].calls[1].fn = "dbExec"
           /\ inv[i].calls[1].arg = inv[i].arg
           /\ Finished(i) =>
                /\ inv[i].calls[1].state \in {"ok", "failed"}
                /\ inv[i].calls[1].state = "ok" <=>
                     /\ Returned(i)
                     /\ inv[i].result.value.payload.success = TRUE
                /\ inv[i].calls[1].state = "failed" <=> Failed(i)

C3_Witness ==
  \E i \in Slots :
    /\ inv[i].op = "createTable"
    /\ inv[i].arg # trim(inv[i].arg)
    /\ inv[i].arg # toLowerCase(inv[i].arg)
    /\ Returned(i)
    /\ includes(tables, <<"m"," ","t">>)

\* the last segment of the path of uri is not "schema", or uri is no URL
NotASchemaUri(uri) ==
  LET url == ParseUrl(uri, NO_BASE) IN
  url.invalid \/ popValue(split(pathname(url), "/")) # SCHEMA_PATH

\* C4: an input-validation failure (bad statement prefix, empty table name,
\* a URI whose last path segment is not "schema") fails the invocation with
\* no call to getListTablesQuery, getDescribeTableQuery, dbAll or dbExec.
C4_ValidationBeforeAnyCall ==
  \A i \in Slots :
    (\/ /\ inv[i].op \in {"createTable", "alterTable"}
        /\ ~BeginsWith(inv[i].arg, Keywords(inv[i].op))
     \/ inv[i].op \in {"dropTable", "describeTable"} /\ inv[i].arg = <<>>
     \/ inv[i].op = "readResource" /\ NotASchemaUri(inv[i].arg)) =>
      /\ Failed(i)
      /\ CallsTo(i, DatabaseCalls) = {}

C4_Witness ==
  \E i \in Slots :
    /\ inv[i].op = "readResource" /\ inv[i].arg = <<"d","b",":","/","/","/","u","/","c","o","l","u","m","n","s">>
    /\ Failed(i) /\ inv[i].calls = <<>>

\* C5: the URI handleListResources yields for a table T of the listing is
\* accepted by handleReadResource, and the table name handleReadResource
\* passes to the describe-table query is T.
C5_ListedUriReadsBack ==
  \A i \in Slots, k \in 1..Len(tables) :
    (/\ inv[i].op = "readResource"
     /\ ~resourceBaseUrl(meta).invalid
     /\ inv[i].arg = href(resourceUrl(tables[k], resourceBaseUrl(meta)))) =>
      /\ inv[i].result.cause # <<"Invalid resource URI">>
      /\ \E c \in CallsTo(i, {"getDescribeTableQuery"}) :
           inv[i].calls[c].arg = tables[k]

\* the path of uri ends in a non-empty table segment followed by "schema"
EndsInTableSchema(uri) ==
  LET url == ParseUrl(uri, NO_BASE)
      segments == split(pathname(url), "/")
  IN /\ ~url.invalid
     /\ Len(segments) >= 2
     /\ segments[Len(segments)] = SCHEMA_PATH
     /\ segments[Len(segments) - 1] # <<>>

\* C6: handleReadResource accepts a URI only when its path ends in
\* <table>/schema; any other shape is rejected as an invalid resource URI,
\* so the describe-table query is never built with an empty or undefined
\* table name.
C6_OnlyTableSchemaAccepted ==
  \A i \in Slots :
    inv[i].op = "readResource" =>
      /\ (~ParseUrl(inv[i].arg, NO_BASE).invalid /\ ~EndsInTableSchema(inv[i].arg))
           => Failed(i) /\ inv[i].result.cause = <<"Invalid resource URI">>
      /\ \A c \in CallsTo(i, {"getDescribeTableQuery"}) :
           inv[i].calls[c].arg \notin {<<>>, UNDEFINED}

\* C7: a DROP TABLE reaches the database for a table that is not there only
\* in an invocation that another invocation's statement overtook between
\* its start and its DROP TABLE (the existence check and the drop are not
\* atomic); an invocation that nothing overtook drops only a table that
\* exists when the statement executes.
C7_DropOfMissingTableOnlyByRace ==
  \A i \in Slots : inv[i].missingAtExec => inv[i].raced

\* the race: a confirmed dropTable passed its existence check, the table
\* went away, and its DROP TABLE failed in the database
C7_Witness ==
  \E i \in Slots :
    /\ inv[i].op = "dropTable" /\ inv[i].missingAtExec /\ inv[i].raced
    /\ \E k \in CallsTo(i, {"dbAll"}) :
         includes(RowNames(inv[i].calls[k].rows), inv[i].arg)
    /\ Failed(i)
    /\ inv[i].result.message =
         <<"Error dropping table: ", "no such table: ">> \o inv[i].arg

\* C8: every failure of every operation is an error whose message is the
\* operation's fixed prefix followed by the whole original message; no
\* failure escapes unwrapped, and no failed call of the external layer ends
\* in a normal return.
C8_FailuresAreWrapped ==
  \A i \in Slots :
    Finished(i) =>
      /\ inv[i].result.kind \in {"returned", "threw"}
      /\ Failed(i) =>
           /\ inv[i].result.cause # <<>>
           /\ inv[i].result.message =
                <<ErrorPrefix(inv[i].op)>> \o inv[i].result.cause
      /\ \A k \in 1..Len(inv[i].calls) :
           inv[i].calls[k].state = "failed" =>
             /\ Failed(i)
             /\ inv[i].result.message =
                  <<ErrorPrefix(inv[i].op)>> \o inv[i].calls[k].error

C8_Witness ==
  \E i \in Slots :
    /\ inv[i].op = "describeTable" /\ Failed(i)
    /\ Len(inv[i].calls) = 4 /\ inv[i].calls[4].state = "failed"
    /\ inv[i].result.message = <<"Error describing table: ">> \o LAYER_ERROR

\* the text of the base URI the claim C9 gives for a metadata record
BaseTextByShape(m) ==
  IF m.type = <<"s","q","l","i","t","e">> /\ Truthy(m.path) THEN <<"s","q","l","i","t","e",":","/","/","/">> \o m.path
  ELSE IF Truthy(m.server) /\ Truthy(m.database)
  THEN m.type \o <<":","/","/">> \o m.server \o <<"/">> \o m.database
  ELSE <<"d","b",":","/","/","/","d","a","t","a","b","a","s","e">>

\* C9 as stated, for server names a URL host may hold: a file-based database
\* gives sqlite:///<path>, any type with server and database set gives
\* <type>://<server>/<database>, every other record gives db:///database.
C9_BaseByShape ==
  \A i \in Slots :
    (inv[i].op = "listResources" /\ inv[i].dbId = "main"
       /\ \A k \in 1..Len(meta.server) : meta.server[k] \notin ForbiddenHost) =>
      /\ ~inv[i].base.invalid
      /\ href(inv[i].base) = BaseTextByShape(meta)

\* the text of the base URI by metadata type
BaseTextByType(m) ==
  IF m.type = <<"s","q","l","i","t","e">> /\ Truthy(m.path) THEN <<"s","q","l","i","t","e",":","/","/","/">> \o m.path
  ELSE IF m.type = <<"s","q","l","s","e","r","v","e","r">> /\ Truthy(m.server) /\ Truthy(m.database)
  THEN <<"s","q","l","s","e","r","v","e","r",":","/","/">> \o m.server \o <<"/">> \o m.database
  ELSE <<"d","b",":","/","/","/","d","a","t","a","b","a","s","e">>

\* the text names a host that holds a character no URL host may hold
HostIsForbidden(m) ==
  /\ m.type = <<"s","q","l","s","e","r","v","e","r">> /\ Truthy(m.server) /\ Truthy(m.database)
  /\ \E k \in 1..Len(m.server) : m.server[k] \in ForbiddenHost

\* C9, amended: type sqlite with a path gives sqlite:///<path>; type
\* sqlserver with server and database set gives sqlserver://<server>/<database>,
\* and the operation fails with a wrapped "Invalid URL" error, before any
\* listing, when that text is no valid URL; every other record, a
\* client-server type other than sqlserver included, gives db:///database
\* without failing.  The descriptors are one per table, in listing order.
C9_BaseByType ==
  \A i \in Slots :
    (inv[i].op = "listResources" /\ inv[i].dbId = "main") =>
      /\ IF HostIsForbidden(meta)
         THEN /\ Failed(i)
              /\ inv[i].result.message =
                   <<"Error listing resources: ", "Invalid URL">>
              /\ CallsTo(i, DatabaseCalls) = {}
         ELSE /\ ~inv[i].base.invalid
              /\ href(inv[i].base) = BaseTextByType(meta)
      /\ Returned(i) =>
           LET rows == inv[i].calls[Len(inv[i].calls)].rows
               resources == inv[i].result.value.resources
           IN /\ Len(resources) = Len(rows)
              /\ \A k \in 1..Len(rows) :
                   resources[k].name =
                     <<"\"">> \o rows[k].name \o <<"\" database schema">>

C9_Witness ==
  \E i \in Slots :
    /\ inv[i].op = "listResources" /\ inv[i].dbId = "main"
    /\ meta = MetaPostgres
    /\ Returned(i)
    /\ Len(inv[i].result.value.resources) = 2
    /\ href(inv[i].base) = <<"d","b",":","/","/","/","d","a","t","a","b","a","s","e">>

ReadOnlyOps == {"listTables", "describeTable", "listResources", "readResource"}
MutatingOps == {"createTable", "alterTable", "dropTable"}

C10_Calls ==
  \A i \in Slots :
    /\ inv[i].op \in ReadOnlyOps => CallsTo(i, {"dbExec"}) = {}
    /\ inv[i].op \in MutatingOps => Cardinality(CallsTo(i, {"dbExec"})) <= 1
    /\ inv[i].op = "dropTable" =>
         \A k \in CallsTo(i, {"dbExec"}) :
           /\ inv[i].confirm
           /\ \E j \in CallsTo(i, {"dbAll"}) :
                /\ j < k
                /\ inv[i].calls[j].arg = LIST_TABLES_QUERY
                /\ inv[i].calls[j].state = "ok"
                /\ includes(RowNames(inv[i].calls[j].rows), inv[i].arg)

C10_Frame ==
  tables' # tables =>
    \E i \in Slots : inv[i].op \in MutatingOps /\ inv[i].pc = "exec"

\* C10: the read-only operations never call dbExec and leave the tables as
\* they are; createTable, alterTable and dropTable call dbExec at most once;
\* a dbExec of dropTable follows, in the same invocation, a listing that
\* held the table name, and confirm was true.
C10_ReadOnlyAndGuardedWrites == []C10_Calls /\ [][C10_Frame]_vars

C10_Witness ==
  \E i \in Slots :
    /\ inv[i].op = "dropTable" /\ Returned(i)
    /\ inv[i].result.value.payload.success = TRUE
    /\ ~includes(tables, inv[i].arg)
====
